---- MODULE Spec2Model ----
(***************************************************************************)
(* Model of script.js: the client-side OCR page.  doExtract prepares up to *)
(* four binarised variants of the chosen image, dispatches one OCR request *)
(* per (variant, page-segmentation mode), joins them with Promise.all,     *)
(* picks the attempt of greatest confidence and shows its text, optionally *)
(* normalised by cleanText.                                                *)
(***************************************************************************)
EXTENDS Integers, Sequences, FiniteSets, TLC

(***************************************************************************)
(* Text.  A string is a sequence of characters; the alphabet holds one     *)
(* ordinary character and the characters cleanText treats specially.       *)
(* "ZWSP" is U+200B, which is not in the \s class of JavaScript.           *)
(***************************************************************************)
Chars == {"a", "SP", "TAB", "NL", "CR", "ZWSP"}

\* \s restricted to the alphabet
Whitespace == {"SP", "TAB", "NL", "CR"}

\* [^\S\r\n] : whitespace other than CR and NL
Blank == Whitespace \ {"CR", "NL"}

\* [ \t]
SpaceTab == {"SP", "TAB"}

\* bounds of the text model
MaxLen == 6

RECURSIVE DropWhile(_, _)
DropWhile(s, class) ==
    IF s # <<>> /\ Head(s) \in class THEN DropWhile(Tail(s), class) ELSE s

RECURSIVE TakeWhile(_, _)
TakeWhile(s, class) ==
    IF s # <<>> /\ Head(s) \in class
    THEN <<Head(s)>> \o TakeWhile(Tail(s), class) ELSE <<>>

\* s.replace(/\u200B/g, '')
StripZeroWidth(s) == SelectSeq(s, LAMBDA c : c # "ZWSP")

\* s.replace(/[^\S\r\n]+/g, ' ')
RECURSIVE CollapseBlank(_)
CollapseBlank(s) ==
    IF s = <<>> THEN <<>>
    ELSE IF Head(s) \in Blank
         THEN <<"SP">> \o CollapseBlank(DropWhile(s, Blank))
         ELSE <<Head(s)>> \o CollapseBlank(Tail(s))

\* s.replace(/[ \t]+\n/g, '\n')
RECURSIVE StripBeforeNewline(_)
StripBeforeNewline(s) ==
    IF s = <<>> THEN <<>>
    ELSE IF Head(s) \in SpaceTab
         THEN LET rest == DropWhile(s, SpaceTab)
              IN  IF rest # <<>> /\ Head(rest) = "NL"
                  THEN <<"NL">> \o StripBeforeNewline(Tail(rest))
                  ELSE TakeWhile(s, SpaceTab) \o StripBeforeNewline(rest)
         ELSE <<Head(s)>> \o StripBeforeNewline(Tail(s))

\* s.replace(/\n{3,}/g, '\n\n')
RECURSIVE CollapseNewlines(_)
CollapseNewlines(s) ==
    IF s = <<>> THEN <<>>
    ELSE IF Head(s) = "NL"
         THEN LET run  == TakeWhile(s, {"NL"})
                  rest == DropWhile(s, {"NL"})
              IN  (IF Len(run) >= 3 THEN <<"NL", "NL">> ELSE run)
                      \o CollapseNewlines(rest)
         ELSE <<Head(s)>> \o CollapseNewlines(Tail(s))

\* String.prototype.trim
RECURSIVE TrimEnd(_)
TrimEnd(s) ==
    IF s # <<>> /\ s[Len(s)] \in Whitespace
    THEN TrimEnd(SubSeq(s, 1, Len(s) - 1)) ELSE s

Trim(s) == TrimEnd(DropWhile(s, Whitespace))

\* s.split('\n') : the lines of s, at least one
RECURSIVE Split(_)
Split(s) ==
    LET line == TakeWhile(s, Chars \ {"NL"})
        rest == DropWhile(s, Chars \ {"NL"})
    IN  IF rest = <<>> THEN <<line>> ELSE <<line>> \o Split(Tail(rest))

\* lines.join('\n')
RECURSIVE Join(_)
Join(lines) ==
    IF Len(lines) = 1 THEN lines[1]
    ELSE lines[1] \o <<"NL">> \o Join(Tail(lines))

\* s.split('\n').map(l => l.trim()).join('\n')
TrimLines(s) ==
    LET lines == Split(s)
    IN  Join([i \in 1..Len(lines) |-> Trim(lines[i])])

cleanText(s) ==
    IF s = <<>> THEN s
    ELSE Trim(TrimLines(CollapseNewlines(StripBeforeNewline(
             CollapseBlank(StripZeroWidth(s))))))


(***************************************************************************)
(* The page.  Bounds of the pipeline model.                                *)
(***************************************************************************)
\* greatest number of recipes that survive in one run
MaxVariants == 2

\* the calls of doExtract of one behaviour
Runs == {1}

Files == {"imgA"}

NoFile == "null"

\* const psms = ['6', '3', '4', '11'] in generation order
psms == <<6, 3, 4, 11>>

\* what Tesseract.recognize may resolve with: res.data.text, res.data.confidence
OcrResponses ==
    { [text |-> <<"a", "TAB", "NL">>, confidence |-> 90],
      [text |-> <<"SP", "a">>, confidence |-> 40] }

(***************************************************************************)
(* The four recipes of createProcessedVariants.  Each is the sequence of   *)
(* its calls into cv that may throw, in statement order ("Mat" is the      *)
(* constructor of its first buffer), with the buffers that exist by the    *)
(* time the call runs and did not exist at the previous call; temps are    *)
(* deleted and dst is pushed only when no call has thrown.                 *)
(***************************************************************************)
Recipes == 0..3

RecipeCalls(k) ==
    CASE k = 0 -> << [call |-> "Mat",                   allocated |-> {}],
                     [call |-> "equalizeHist",          allocated |-> {"v0"}],
                     [call |-> "adaptiveThreshold",     allocated |-> {"dst0"}],
                     [call |-> "getStructuringElement", allocated |-> {}],
                     [call |-> "morphologyEx",          allocated |-> {"kernel"}] >>
      [] k = 1 -> << [call |-> "Mat",                   allocated |-> {}],
                     [call |-> "GaussianBlur",          allocated |-> {"blur"}],
                     [call |-> "threshold",             allocated |-> {"dst1"}] >>
      [] k = 2 -> << [call |-> "Mat",                   allocated |-> {}],
                     [call |-> "bilateralFilter",       allocated |-> {"bil"}],
                     [call |-> "medianBlur",            allocated |-> {"med"}],
                     [call |-> "adaptiveThreshold",     allocated |-> {"dst2"}] >>
      [] k = 3 -> << [call |-> "Mat",                   allocated |-> {}],
                     [call |-> "equalizeHist",          allocated |-> {"claheBase"}],
                     [call |-> "CLAHE",                 allocated |-> {"claheDst"}],
                     [call |-> "apply",                 allocated |-> {"claheObj"}],
                     [call |-> "threshold",             allocated |-> {"dst3"}] >>

RecipeDst(k) ==
    CASE k = 0 -> "dst0" [] k = 1 -> "dst1" [] k = 2 -> "dst2" [] k = 3 -> "dst3"

RecipeTemps(k) ==
    CASE k = 0 -> {"kernel", "v0"}
      [] k = 1 -> {"blur"}
      [] k = 2 -> {"bil", "med"}
      [] k = 3 -> {"claheBase", "claheDst", "claheObj"}

\* throwAt[k] = 0: recipe k runs through; j > 0: its j-th cv call throws
ThrowPoints == {f \in [Recipes -> 0..5] : \A k \in Recipes : f[k] <= Len(RecipeCalls(k))}

(***************************************************************************)
(* Buffers (cv.Mat and the CLAHE object) of one run: live holds those      *)
(* allocated and not deleted that the run still refers to; leaked tells    *)
(* that some buffer was allocated whose only reference was a local of a    *)
(* block that an exception left (nothing can delete or use it any more);   *)
(* misuse records a delete or a use of a buffer that is not live.          *)
(***************************************************************************)
Alloc(R, bufs) == [R EXCEPT !.live = @ \cup bufs]

Delete(R, bufs) ==
    [R EXCEPT !.live = @ \ bufs, !.misuse = @ \/ ~(bufs \subseteq R.live)]

Use(R, buf) == [R EXCEPT !.misuse = @ \/ buf \notin R.live]

Leak(R, bufs) == [R EXCEPT !.leaked = @ \/ bufs # {}]

\* a buffer is named after the variable that holds it: x.delete(); x = y
Replace(R, x, y) == [Delete(R, {x}) EXCEPT !.live = (@ \ {y}) \cup {x}]

\* the buffers of recipe k that exist when its j-th call runs
AllocatedBy(k, j) == UNION {RecipeCalls(k)[n].allocated : n \in 1..j}

\* one try block of lines 214-256; its second call is the one that reads gray
RunRecipe(R, k, throwAt) ==
    IF throwAt = 0
    THEN LET all == Alloc(Use(R, "gray"), AllocatedBy(k, Len(RecipeCalls(k))))
             pushed == [all EXCEPT !.variants = Append(@, k)]
         IN  Delete(pushed, RecipeTemps(k))
    ELSE Leak(IF throwAt > 1 THEN Use(R, "gray") ELSE R, AllocatedBy(k, throwAt))

\* the four recipes in one try block: the first that throws ends the batch
RECURSIVE RunRecipesAborting(_, _, _)
RunRecipesAborting(R, k, throwAt) ==
    IF k \notin Recipes \/ throwAt[k] # 0 THEN R
    ELSE RunRecipesAborting(RunRecipe(R, k, 0), k + 1, throwAt)

RECURSIVE RunRecipes(_, _, _)
RunRecipes(R, k, throwAt) ==
    IF k \notin Recipes THEN R
    ELSE RunRecipes(RunRecipe(R, k, throwAt[k]), k + 1, throwAt)

(***************************************************************************)
(* computeSkewAngle, lines 150-171.  A detected segment is the vector from  *)
(* its first end to its second, <<x2 - x1, y2 - y1>>; angles are in         *)
(* hundredths of a degree.                                                 *)
(***************************************************************************)
Segments == {<<100, 0>>, <<1000, 3>>, <<100, 1>>, <<2, 1>>, <<2, -1>>, <<1, 1>>, <<0, 1>>}

\* (Math.atan2(y2 - y1, x2 - x1) * 180) / Math.PI, line 160
AngleOf(seg) ==
    CASE seg = <<100, 0>>  -> 0
      [] seg = <<1000, 3>> -> 17
      [] seg = <<100, 1>>  -> 57
      [] seg = <<2, 1>>    -> 2657
      [] seg = <<2, -1>>   -> -2657
      [] seg = <<1, 1>>    -> 4500
      [] seg = <<0, 1>>    -> 9000

Abs(n) == IF n < 0 THEN -n ELSE n

\* Math.abs(angle) < 45, line 161
MaxSkew == 4500

\* Math.abs(angle) > 0.35, line 203
MinRotation == 35

\* the angles pushed by the loop of lines 157-162
Kept(lines) ==
    SelectSeq([i \in 1..Len(lines) |-> AngleOf(lines[i])], LAMBDA a : Abs(a) < MaxSkew)

\* angles.sort((a, b) => a - b), line 165
RECURSIVE InsertAscending(_, _)
InsertAscending(sorted, x) ==
    IF sorted = <<>> THEN <<x>>
    ELSE IF x - Head(sorted) < 0
         THEN <<x>> \o sorted
         ELSE <<Head(sorted)>> \o InsertAscending(Tail(sorted), x)

RECURSIVE SortAngles(_)
SortAngles(angles) ==
    IF angles = <<>> THEN <<>>
    ELSE InsertAscending(SortAngles(SubSeq(angles, 1, Len(angles) - 1)), angles[Len(angles)])

\* cv.Canny or cv.HoughLinesP may throw (lines 153, 155)
Detections == {"ok", "CannyThrows", "HoughLinesPThrows"}

\* computeSkewAngle without the test of line 161
computeSkewAngleOfAll(lines, detection) ==
    IF detection # "ok" THEN 0
    ELSE LET angles == [i \in 1..Len(lines) |-> AngleOf(lines[i])]
         IN  IF Len(lines) = 0 THEN 0
             ELSE SortAngles(angles)[(Len(angles) \div 2) + 1]

computeSkewAngle(lines, detection) ==
    IF detection # "ok" THEN 0
    ELSE LET angles == Kept(lines)
         IN  IF Len(angles) = 0 THEN 0
             ELSE SortAngles(angles)[(Len(angles) \div 2) + 1]

\* lines 202-209: what createProcessedVariants does with the angle
SkewOutcome(lines, detection) ==
    IF detection # "ok" THEN detection
    ELSE IF Abs(computeSkewAngle(lines, detection)) > MinRotation THEN "rotate"
    ELSE "negligible"

\* computeSkewAngle and the rotation of lines 201-210
SkewOutcomes == {"negligible", "rotate", "CannyThrows", "HoughLinesPThrows"}

Deskew(R, skew) ==
    CASE skew = "CannyThrows" -> Leak(R, {"edges"})
      [] skew = "HoughLinesPThrows" -> Leak(R, {"edges", "lines"})
      [] skew = "negligible" -> Delete(Alloc(R, {"edges", "lines"}), {"edges", "lines"})
      [] skew = "rotate" ->
            LET measured == Delete(Alloc(R, {"edges", "lines"}), {"edges", "lines"})
                rotated  == Delete(Alloc(Use(measured, "gray"), {"M", "rotated"}), {"M"})
            IN  Replace(rotated, "gray", "rotated")

\* lines 185-256, after the image has been decoded
Preprocess(R, narrow, doDeskew, skew, throwAt) ==
    LET read    == Alloc(R, {"src"})
        resized == IF narrow
                   THEN Replace(Alloc(read, {"resized"}), "src", "resized")
                   ELSE read
        grayed  == Alloc(resized, {"gray"})
        level   == IF doDeskew THEN Deskew(grayed, skew) ELSE grayed
    IN  RunRecipes(level, 0, throwAt)

(***************************************************************************)
(* Result selection, lines 326-333.                                        *)
(***************************************************************************)
\* the attempt object built by the .then of task t (1-based, generation order)
Attempt(t, res) ==
    [text |-> res.text, avgConf |-> res.conf,
     variant |-> ((t - 1) \div Len(psms)) + 1, psm |-> psms[((t - 1) % Len(psms)) + 1]]

\* the comparison the wrong way round: (a, b) => a.avgConf - b.avgConf
compareFnAscending(a, b) == a.avgConf - b.avgConf

\* (a, b) => b.avgConf - a.avgConf
compareFn(a, b) == b.avgConf - a.avgConf

\* Array.prototype.sort is stable: x goes before the first y it must precede
RECURSIVE InsertSorted(_, _)
InsertSorted(sorted, x) ==
    IF sorted = <<>> THEN <<x>>
    ELSE IF compareFn(x, Head(sorted)) < 0
         THEN <<x>> \o sorted
         ELSE <<Head(sorted)>> \o InsertSorted(Tail(sorted), x)

RECURSIVE SortResults(_)
SortResults(list) ==
    IF list = <<>> THEN <<>>
    ELSE InsertSorted(SortResults(SubSeq(list, 1, Len(list) - 1)), list[Len(list)])

\* { text: '', avgConf: 0 } : variant and psm are undefined, written 0
DefaultBest == [text |-> <<>>, avgConf |-> 0, variant |-> 0, psm |-> 0]

\* results[0] || { text: '', avgConf: 0 }
Best(sorted) == IF sorted = <<>> THEN DefaultBest ELSE sorted[1]

\* the value Promise.all resolves with: the attempts in task order
Collected(values) == [t \in 1..Len(values) |-> Attempt(t, values[t])]

(***************************************************************************)
(* State.                                                                  *)
(***************************************************************************)
VARIABLES
    cvReady, tessReady, lastFile,       \* lines 34-36
    tStatus,                            \* the text of the element of line 21
    btnExtract, btnReprocess,           \* the disabled flag of each button
    statusEl, resultArea, confBadge,    \* what the page shows
    previewImg, variantsRow,
    srcCanvas, procCanvas,              \* the two hidden canvases
    run,                                \* the locals of each call of doExtract
    input, output, again                \* cleanText applied on its own

pageVars == <<statusEl, resultArea, confBadge, previewImg, variantsRow, procCanvas>>

vars == <<cvReady, tessReady, tStatus, lastFile, btnExtract, btnReprocess, statusEl,
          resultArea, confBadge, previewImg, variantsRow, srcCanvas, procCanvas,
          run, input, output, again>>

textVars == <<input, output, again>>

\* images: an object URL of a file, the decoded pixels of a file, or the
\* pixels of a buffer of a run (on a canvas, or as its data URL)
NoImage == [kind |-> "none", run |-> 0, name |-> ""]

ObjectURL(f) == [kind |-> "url", run |-> 0, name |-> f]

Decoded(f) == [kind |-> "decoded", run |-> 0, name |-> f]

Raster(r, buf) == [kind |-> "raster", run |-> r, name |-> buf]

\* confBadge: 'Confidence: —' is <<>>, 'Confidence: c' is <<c>>
Dash == <<>>

HiddenRow == [display |-> "none", thumbs |-> <<>>]

\* the slot of one task in the values of Promise.all, before it is filled
NoValue == [text |-> <<>>, conf |-> 0]

IdleRun(r) ==
    [id |-> r, pc |-> "idle", file |-> NoFile, read |-> NoImage,
     created |-> FALSE, variants |-> <<>>, i |-> 0,
     ocrTasks |-> <<>>, values |-> <<>>, results |-> <<>>, best |-> DefaultBest,
     selected |-> FALSE, live |-> {}, leaked |-> FALSE, misuse |-> FALSE, alert |-> ""]

\* the page as one call of doExtract sees and changes it
Page(r) ==
    [statusEl |-> statusEl, resultArea |-> resultArea, confBadge |-> confBadge,
     previewImg |-> previewImg, variantsRow |-> variantsRow,
     procCanvas |-> procCanvas, run |-> run[r]]

Commit(r, P) ==
    /\ statusEl' = P.statusEl
    /\ resultArea' = P.resultArea
    /\ confBadge' = P.confBadge
    /\ previewImg' = P.previewImg
    /\ variantsRow' = P.variantsRow
    /\ procCanvas' = P.procCanvas
    /\ run' = [run EXCEPT ![r] = P.run]

(***************************************************************************)
(* doExtract, as the continuations between its awaits.                     *)
(***************************************************************************)
\* lines 361-366
Catch(P) ==
    [P EXCEPT !.statusEl = "Error", !.run.pc = "error",
              !.run.alert = "Error during processing"]

\* cv.imshow(procCanvas, mat)
Imshow(P, buf) ==
    [P EXCEPT !.procCanvas = Raster(P.run.id, buf), !.run = Use(@, buf)]

\* lines 328-333
Select(P, normalize) ==
    LET sorted == SortResults(Collected(P.run.values))
        best   == Best(sorted)
        out    == IF normalize THEN cleanText(best.text) ELSE best.text
    IN  [P EXCEPT !.run.results = sorted,
                  !.run.best = best,
                  !.run.selected = TRUE,
                  !.resultArea = out,
                  !.confBadge = IF best.avgConf # 0 THEN <<best.avgConf>> ELSE Dash]

\* the loop of lines 337-346, from variant n on; throwAt counts the calls
\* of cv.imshow of lines 335-355 and names the one that throws (0: none)
RECURSIVE Thumbs(_, _, _)
Thumbs(P, n, throwAt) ==
    IF n > Len(P.run.variants) THEN [page |-> P, threw |-> FALSE]
    ELSE IF throwAt = n THEN [page |-> P, threw |-> TRUE]
    ELSE Thumbs([Imshow(P, RecipeDst(P.run.variants[n]))
                    EXCEPT !.variantsRow.thumbs = Append(@, n)], n + 1, throwAt)

\* lines 348-350 and 352-354; calls is the number of imshow calls before
BestMat(P, calls, throwAt) ==
    LET index == P.run.best.variant - 1
    IN  IF P.run.best.variant = 0 \/ index + 1 > Len(P.run.variants)
        THEN [page |-> P, threw |-> TRUE]
        ELSE IF throwAt = calls + 1 THEN [page |-> P, threw |-> TRUE]
        ELSE LET buf   == RecipeDst(P.run.variants[index + 1])
                 shown == Imshow(P, buf)
             IN  [page |-> [shown EXCEPT !.previewImg = shown.procCanvas],
                  threw |-> FALSE]

\* lines 335-355
Draw(P, showAll, throwAt) ==
    IF showAll
    THEN LET row == Thumbs([P EXCEPT !.variantsRow.thumbs = <<>>], 1, throwAt)
         IN  IF row.threw THEN row
             ELSE BestMat([row.page EXCEPT !.variantsRow.display = "flex"],
                          Len(P.run.variants), throwAt)
    ELSE BestMat(P, 0, throwAt)

\* lines 357-360
Finish(P) ==
    LET mats == {RecipeDst(P.run.variants[n]) : n \in 1..Len(P.run.variants)}
    IN  [P EXCEPT !.statusEl = "Done.",
                  !.run = [Delete(@, mats) EXCEPT !.pc = "done"]]

\* lines 328-366, entered when the join of line 326 resolves
AfterJoin(P, normalize, showAll, throwAt) ==
    LET drawn == Draw(Select(P, normalize), showAll, throwAt)
    IN  IF drawn.threw THEN Catch(drawn.page) ELSE Finish(drawn.page)

\* a join that resolves with the first fulfilment, as Promise.any does
JoinResolvesOnFirst(tasks) == \E t \in 1..Len(tasks) : tasks[t] = "fulfilled"

\* a join that never resolves
JoinNeverResolves(tasks) == FALSE

\* a join that waits through rejections, as Promise.allSettled does
JoinNeverRejects(tasks) == FALSE

\* Promise.all: resolves once every task is fulfilled, rejects with the first rejection
JoinResolves(tasks) == \A t \in 1..Len(tasks) : tasks[t] = "fulfilled"

JoinRejects(tasks) == \E t \in 1..Len(tasks) : tasks[t] = "rejected"

\* a dispatcher that issues the first request only and would issue the next
\* one when it completes
DispatchFirst(variants) == [t \in 1..(IF variants = <<>> THEN 0 ELSE 1) |-> "pending"]

\* the inner loop of line 302 left out: one task per variant
DispatchPerVariant(variants) == [t \in 1..Len(variants) |-> "pending"]

\* lines 297-323: one task per variant and page-segmentation mode
Dispatch(variants) == [t \in 1..(Len(variants) * Len(psms)) |-> "pending"]

\* lines 294-326, up to the await of the join
RunOcr(P, normalize, showAll, throwAt) ==
    LET tasks   == Dispatch(P.run.variants)
        waiting == [P EXCEPT !.statusEl = "Running OCR", !.run.ocrTasks = tasks,
                             !.run.values = [t \in 1..Len(tasks) |-> NoValue],
                             !.run.pc = "ocr"]
    IN  IF JoinResolves(tasks) THEN AfterJoin(waiting, normalize, showAll, throwAt)
        ELSE waiting

\* the loop of lines 259-264 up to its next await, then lines 266-267;
\* encodeThrows: the call of cv.imshow of line 260 throws
Encode(P, encodeThrows, normalize, showAll, throwAt) ==
    IF P.run.i < Len(P.run.variants)
    THEN IF encodeThrows THEN Catch(P)
         ELSE LET shown == Imshow(P, RecipeDst(P.run.variants[P.run.i + 1]))
              IN  [shown EXCEPT !.previewImg = IF P.run.i = 0 THEN shown.procCanvas ELSE @,
                                !.run.pc = "encode"]
    ELSE RunOcr([P EXCEPT !.run = [Delete(@, {"gray", "src"}) EXCEPT !.created = TRUE]],
                normalize, showAll, throwAt)

(***************************************************************************)
(* Handlers.                                                               *)
(***************************************************************************)
\* lines 46-49
updateReady(cv, tess) ==
    /\ btnExtract' = ~(cv /\ tess)
    /\ btnReprocess' = ~(cv /\ tess)

\* lines 53-58 and 62-67
OnRuntimeInitialized ==
    /\ ~cvReady
    /\ cvReady' = TRUE
    /\ updateReady(TRUE, tessReady)
    /\ UNCHANGED <<tessReady, tStatus, lastFile, pageVars, srcCanvas, run, textVars>>

\* lines 85-95
FileInputChange(f) ==
    /\ lastFile' = f
    /\ IF f # NoFile
       THEN /\ previewImg' = ObjectURL(f)
            /\ resultArea' = <<>>
            /\ confBadge' = Dash
            /\ variantsRow' = HiddenRow
       ELSE UNCHANGED <<previewImg, resultArea, confBadge, variantsRow>>
    /\ UNCHANGED <<cvReady, tessReady, tStatus, btnExtract, btnReprocess, statusEl,
                   srcCanvas, procCanvas, run, textVars>>

\* lines 103-111
BtnClearClick ==
    /\ resultArea' = <<>>
    /\ previewImg' = NoImage
    /\ lastFile' = NoFile
    /\ confBadge' = Dash
    /\ variantsRow' = HiddenRow
    /\ UNCHANGED <<cvReady, tessReady, tStatus, btnExtract, btnReprocess, statusEl,
                   srcCanvas, procCanvas, run, textVars>>

\* doExtract without the test of line 282
doExtractUnguarded(r, file) ==
    /\ run[r].pc = "idle"
    /\ \A q \in Runs : q < r => run[q].pc # "idle"
    /\ statusEl' = "Preparing images..."
    /\ confBadge' = Dash
    /\ resultArea' = <<>>
    /\ previewImg' = NoImage
    /\ variantsRow' = HiddenRow
    /\ run' = [run EXCEPT ![r].pc = "decode", ![r].file = file]
    /\ UNCHANGED <<cvReady, tessReady, tStatus, lastFile, btnExtract, btnReprocess,
                   srcCanvas, procCanvas, textVars>>

\* lines 281-293 and 183-184, 135-147: up to the await of the image
doExtract(r, file) ==
    /\ run[r].pc = "idle"
    /\ \A q \in Runs : q < r => run[q].pc # "idle"
    /\ IF ~cvReady
       THEN /\ run' = [run EXCEPT ![r].pc = "notready", ![r].alert = "OpenCV not ready yet"]
            /\ UNCHANGED pageVars
       ELSE /\ statusEl' = "Preparing images..."
            /\ confBadge' = Dash
            /\ resultArea' = <<>>
            /\ previewImg' = NoImage
            /\ variantsRow' = HiddenRow
            /\ run' = [run EXCEPT ![r].pc = "decode", ![r].file = file]
            /\ UNCHANGED procCanvas
    /\ UNCHANGED <<cvReady, tessReady, tStatus, lastFile, btnExtract, btnReprocess,
                   srcCanvas, textVars>>

\* lines 127-130
BtnExtractClick(r) ==
    /\ ~btnExtract
    /\ lastFile # NoFile
    /\ doExtract(r, lastFile)

\* lines 122-125
BtnReprocessClick(r) ==
    /\ ~btnReprocess
    /\ lastFile # NoFile
    /\ doExtract(r, lastFile)

\* doExtract called by a caller other than the two click handlers
DoExtractCall(r, file) == doExtract(r, file)

\* lines 185-267 and on, entered when imgToCanvas resolves: cv.imread reads
\* what srcCanvas holds then (canvas); skews and throws are the outcomes of
\* skew detection and of the recipes that the behaviour may take
PreparedFrom(r, canvas, skews, throws) ==
    \E imreadThrows, narrow, doDeskew, encodeThrows, normalize, showAll \in BOOLEAN,
       skew \in skews, throwAt \in throws :
        IF imreadThrows
        THEN Commit(r, Catch(Page(r)))
        ELSE LET R == Preprocess([run[r] EXCEPT !.read = canvas],
                                 narrow, doDeskew, skew, throwAt)
             IN  /\ Len(R.variants) <= MaxVariants
                 /\ Commit(r, Encode([Page(r) EXCEPT !.run = R], encodeThrows,
                                     normalize, showAll, 0))

\* lines 138-144: the image is drawn, the promise resolves and the
\* continuation of line 185 runs before any other handler
ImgOnloadFrom(r, skews, throws) ==
    /\ run[r].pc = "decode"
    /\ srcCanvas' = Decoded(run[r].file)
    /\ PreparedFrom(r, Decoded(run[r].file), skews, throws)
    /\ UNCHANGED <<cvReady, tessReady, tStatus, lastFile, btnExtract, btnReprocess, textVars>>

ImgOnload(r) == ImgOnloadFrom(r, SkewOutcomes, ThrowPoints)

\* line 145: the promise resolves with nothing drawn
ImgOnerrorFrom(r, skews, throws) ==
    /\ run[r].pc = "decode"
    /\ PreparedFrom(r, srcCanvas, skews, throws)
    /\ UNCHANGED <<cvReady, tessReady, tStatus, lastFile, btnExtract, btnReprocess,
                   srcCanvas, textVars>>

ImgOnerror(r) == ImgOnerrorFrom(r, SkewOutcomes, ThrowPoints)

\* the callback of procCanvas.toBlob, line 262, then line 263 and the next turn
ToBlobCallback(r) ==
    /\ run[r].pc = "encode"
    /\ \E encodeThrows, normalize, showAll \in BOOLEAN :
          Commit(r, Encode([Page(r) EXCEPT !.run.i = @ + 1], encodeThrows,
                           normalize, showAll, 0))
    /\ UNCHANGED <<cvReady, tessReady, tStatus, lastFile, btnExtract, btnReprocess,
                   srcCanvas, textVars>>

\* the promise of task t fulfils with res: the .then of lines 314-320 and
\* the join of line 326, which keeps the value while it is still waiting
RecognizeFulfilled(r, t, res) ==
    /\ run[r].ocrTasks[t] = "pending"
    /\ LET tasks == [run[r].ocrTasks EXCEPT ![t] = "fulfilled"]
           value == [text |-> res.text, conf |-> res.confidence]
           P     == [Page(r) EXCEPT !.run.ocrTasks = tasks]
       IN  IF run[r].pc # "ocr" THEN Commit(r, P)
           ELSE LET Q == [P EXCEPT !.run.values[t] = value]
                IN  IF JoinResolves(tasks)
                    THEN \E normalize, showAll \in BOOLEAN,
                            throwAt \in 0..(Len(P.run.variants) + 1) :
                            Commit(r, AfterJoin(Q, normalize, showAll, throwAt))
                    ELSE Commit(r, Q)
    /\ UNCHANGED <<cvReady, tessReady, tStatus, lastFile, btnExtract, btnReprocess,
                   srcCanvas, textVars>>

\* the promise of task t rejects; a join still waiting rejects with it and
\* the values it had collected are dropped
RecognizeRejected(r, t) ==
    /\ run[r].ocrTasks[t] = "pending"
    /\ LET tasks == [run[r].ocrTasks EXCEPT ![t] = "rejected"]
           P     == [Page(r) EXCEPT !.run.ocrTasks = tasks]
       IN  IF run[r].pc = "ocr" /\ JoinRejects(tasks)
           THEN Commit(r, Catch([P EXCEPT !.run.values = <<>>]))
           ELSE Commit(r, P)
    /\ UNCHANGED <<cvReady, tessReady, tStatus, lastFile, btnExtract, btnReprocess,
                   srcCanvas, textVars>>

\* what the engine passes to the logger: m.status, and m.progress in hundredths
LoggerMessages ==
    { [status |-> "recognizing text", progress |-> 50],
      [status |-> "", progress |-> 0] }

\* a logger that writes the page's status line instead of the engine's
LoggerWritesStatus(r, t, m) ==
    /\ run[r].ocrTasks[t] = "pending"
    /\ statusEl' = IF m.status # "" THEN m.status ELSE statusEl
    /\ UNCHANGED <<cvReady, tessReady, tStatus, lastFile, btnExtract, btnReprocess,
                   resultArea, confBadge, previewImg, variantsRow, srcCanvas,
                   procCanvas, run, textVars>>

\* lines 305-309: the logger of a request that is being recognized
Logger(r, t, m) ==
    /\ run[r].ocrTasks[t] = "pending"
    /\ tStatus' = IF m.status # "" THEN <<m.status, m.progress>> ELSE tStatus
    /\ UNCHANGED <<cvReady, tessReady, lastFile, btnExtract, btnReprocess, pageVars,
                   srcCanvas, run, textVars>>

\* output and again before cleanText has been applied (no value of cleanText)
NotRun == <<"ZWSP">>

Init ==
    /\ cvReady = FALSE
    /\ tessReady = TRUE
    /\ tStatus = <<"ready">>
    /\ lastFile = NoFile
    /\ btnExtract = TRUE
    /\ btnReprocess = TRUE
    /\ statusEl = ""
    /\ resultArea = <<>>
    /\ confBadge = Dash
    /\ previewImg = NoImage
    /\ variantsRow = HiddenRow
    /\ srcCanvas = NoImage
    /\ procCanvas = NoImage
    /\ run = [r \in Runs |-> IdleRun(r)]
    /\ input = <<>> /\ output = NotRun /\ again = NotRun

\* the user chooses a file and starts doExtract
Next ==
    \/ OnRuntimeInitialized
    \/ \E f \in Files : lastFile = NoFile /\ FileInputChange(f)
    \/ \E r \in Runs :
          \/ BtnExtractClick(r)
          \/ BtnReprocessClick(r)
          \/ ImgOnload(r)
          \/ ImgOnerror(r)
          \/ ToBlobCallback(r)
          \/ \E t \in 1..Len(run[r].ocrTasks), res \in OcrResponses :
                RecognizeFulfilled(r, t, res)
          \/ \E t \in 1..Len(run[r].ocrTasks) : RecognizeRejected(r, t)

Spec == Init /\ [][Next]_vars

(***************************************************************************)
(* The page with everything a user or a caller can do around one run:      *)
(* choosing another file, Clear, calling doExtract directly, and the        *)
(* engine's progress messages.  At most MaxPageVariants recipes survive, a  *)
(* failing recipe fails in its first call, and the engine has one answer.   *)
(***************************************************************************)
MaxPageVariants == 1

PageThrowPoints ==
    {f \in ThrowPoints :
        \A k \in Recipes : IF k < MaxPageVariants THEN f[k] \in {0, 1} ELSE f[k] = 1}

PageSkews == {"negligible"}

PageResponses == {res \in OcrResponses : res.confidence = 90}

NextPage ==
    \/ OnRuntimeInitialized
    \/ \E f \in Files : FileInputChange(f)
    \/ BtnClearClick
    \/ \E r \in Runs :
          \/ BtnExtractClick(r)
          \/ BtnReprocessClick(r)
          \/ \E f \in Files : DoExtractCall(r, f)
          \/ ImgOnloadFrom(r, PageSkews, PageThrowPoints)
          \/ ImgOnerrorFrom(r, PageSkews, PageThrowPoints)
          \/ ToBlobCallback(r)
          \/ \E t \in 1..Len(run[r].ocrTasks), res \in PageResponses :
                RecognizeFulfilled(r, t, res)
          \/ \E t \in 1..Len(run[r].ocrTasks) : RecognizeRejected(r, t)
          \/ \E t \in 1..Len(run[r].ocrTasks), m \in LoggerMessages : Logger(r, t, m)

SpecPage == Init /\ [][NextPage]_vars

\* the load event of the image of run r: load or error
ImageEvent(r) ==
    ImgOnloadFrom(r, PageSkews, PageThrowPoints) \/ ImgOnerrorFrom(r, PageSkews, PageThrowPoints)

AllSettled(r) == \A t \in 1..Len(run[r].ocrTasks) : run[r].ocrTasks[t] # "pending"

\* the event loop delivers what is pending, the load or error event of the
\* image and the callback of toBlob, and the engine settles every request
FairPage ==
    /\ SpecPage
    /\ \A r \in Runs :
          /\ WF_vars(ImageEvent(r))
          /\ WF_vars(ToBlobCallback(r))
          /\ []<>AllSettled(r)

(***************************************************************************)
(* Two calls of doExtract in flight at once: the buttons stay enabled       *)
(* during a run, and another file can be chosen between the two clicks.    *)
(* No request rejects here.                                                *)
(***************************************************************************)
RaceRuns == {1, 2}

RaceFiles == {"imgA", "imgB"}

InitRace ==
    /\ Init!1 /\ Init!2 /\ Init!3 /\ Init!4 /\ Init!5 /\ Init!6 /\ Init!7
    /\ Init!8 /\ Init!9 /\ Init!10 /\ Init!11 /\ Init!12 /\ Init!13
    /\ run = [r \in RaceRuns |-> IdleRun(r)]
    /\ Init!15

NextRace ==
    \/ OnRuntimeInitialized
    \/ \E f \in RaceFiles : FileInputChange(f)
    \/ \E r \in RaceRuns :
          \/ BtnExtractClick(r)
          \/ BtnReprocessClick(r)
          \/ ImgOnloadFrom(r, PageSkews, PageThrowPoints)
          \/ ImgOnerrorFrom(r, PageSkews, PageThrowPoints)
          \/ ToBlobCallback(r)
          \/ \E t \in 1..Len(run[r].ocrTasks), res \in PageResponses :
                RecognizeFulfilled(r, t, res)

SpecRace == InitRace /\ [][NextRace]_vars

(***************************************************************************)
(* createProcessedVariants on its own, lines 185-256: skew detection over  *)
(* every list of at most MaxLines segments, and the recipes over every     *)
(* choice of the calls that throw.                                         *)
(***************************************************************************)
MaxLines == 3

RECURSIVE LineLists(_)
LineLists(n) ==
    IF n = 0 THEN {<<>>}
    ELSE LET shorter == LineLists(n - 1)
         IN  shorter \cup {Append(l, g) : l \in {m \in shorter : Len(m) = n - 1}, g \in Segments}

NoThrows == [k \in Recipes |-> 0]

InitSkew ==
    /\ Init!1 /\ Init!2 /\ Init!3 /\ Init!4 /\ Init!5 /\ Init!6 /\ Init!7
    /\ Init!8 /\ Init!9 /\ Init!10 /\ Init!11 /\ Init!12 /\ Init!13 /\ Init!14
    /\ input \in [lines : LineLists(MaxLines), detection : Detections]
    /\ output = NotRun /\ again = NotRun

\* lines 198-210 with optDeskew checked, then the recipes
DetectSkew ==
    /\ run[1].pc = "idle"
    /\ output' = [angle |-> computeSkewAngle(input.lines, input.detection),
                  outcome |-> SkewOutcome(input.lines, input.detection)]
    /\ run' = [run EXCEPT ![1] =
                  [Preprocess(@, FALSE, TRUE, SkewOutcome(input.lines, input.detection),
                              NoThrows) EXCEPT !.pc = "preprocessed"]]
    /\ UNCHANGED <<cvReady, tessReady, tStatus, lastFile, btnExtract, btnReprocess,
                   pageVars, srcCanvas, input, again>>

SpecSkew == InitSkew /\ [][DetectSkew]_vars

InitRecipes ==
    /\ Init!1 /\ Init!2 /\ Init!3 /\ Init!4 /\ Init!5 /\ Init!6 /\ Init!7
    /\ Init!8 /\ Init!9 /\ Init!10 /\ Init!11 /\ Init!12 /\ Init!13 /\ Init!14
    /\ input \in [throwAt : ThrowPoints, narrow : BOOLEAN, doDeskew : BOOLEAN,
                   skew : SkewOutcomes]
    /\ output = NotRun /\ again = NotRun

\* lines 185-256
CreateVariants ==
    /\ run[1].pc = "idle"
    /\ run' = [run EXCEPT ![1] =
                  [Preprocess(@, input.narrow, input.doDeskew, input.skew, input.throwAt)
                      EXCEPT !.pc = "preprocessed"]]
    /\ UNCHANGED <<cvReady, tessReady, tStatus, lastFile, btnExtract, btnReprocess,
                   pageVars, srcCanvas, textVars>>

SpecRecipes == InitRecipes /\ [][CreateVariants]_vars

(***************************************************************************)
(* cleanText on its own, over every string of at most MaxLen characters.   *)
(***************************************************************************)
RECURSIVE Strings(_)
Strings(n) ==
    IF n = 0 THEN {<<>>}
    ELSE LET shorter == Strings(n - 1)
         IN  shorter \cup {Append(s, c) : s \in {t \in shorter : Len(t) = n - 1}, c \in Chars}

InitClean ==
    /\ Init!1 /\ Init!2 /\ Init!3 /\ Init!4 /\ Init!5 /\ Init!6 /\ Init!7
    /\ Init!8 /\ Init!9 /\ Init!10 /\ Init!11 /\ Init!12 /\ Init!13 /\ Init!14
    /\ input \in Strings(MaxLen) /\ output = NotRun /\ again = NotRun

Normalize ==
    /\ output = NotRun
    /\ output' = cleanText(input)
    /\ again' = cleanText(cleanText(input))
    /\ UNCHANGED <<cvReady, tessReady, tStatus, lastFile, btnExtract, btnReprocess, pageVars,
                   srcCanvas, run, input>>

SpecClean == InitClean /\ [][Normalize]_vars

(***************************************************************************)
(* Properties.                                                             *)
(***************************************************************************)
Ended(r) == run[r].pc \in {"done", "error"}

Attempts(r) == {Collected(run[r].values)[t] : t \in 1..Len(run[r].values)}

PsmRank(p) == CHOOSE n \in 1..Len(psms) : psms[n] = p

\* a was generated before b: variant-major, then the order 6, 3, 4, 11
GeneratedBefore(a, b) ==
    \/ a.variant < b.variant
    \/ a.variant = b.variant /\ PsmRank(a.psm) < PsmRank(b.psm)

\* C1: whatever the order in which the requests settled, the attempt selected
\* from a list that is not empty has the greatest confidence of the list, and
\* every other attempt of that confidence was generated after it
C1_SelectsEarliestMaximum ==
    \A r \in Runs :
        run[r].selected /\ run[r].values # <<>> =>
            /\ run[r].best \in Attempts(r)
            /\ \A a \in Attempts(r) :
                  /\ a.avgConf <= run[r].best.avgConf
                  /\ a.avgConf = run[r].best.avgConf /\ a # run[r].best
                        => GeneratedBefore(run[r].best, a)

\* a selection from two variants in which an attempt generated earlier has
\* less confidence than the selected one and an attempt of the other variant ties
C1_Witness ==
    \E r \in Runs :
        /\ run[r].selected
        /\ \E a, b \in Attempts(r) :
              /\ a.avgConf < run[r].best.avgConf
              /\ GeneratedBefore(a, run[r].best)
              /\ b.avgConf = run[r].best.avgConf
              /\ b.variant > run[r].best.variant

\* C2: when the result is selected, there are N x 4 attempts, exactly one for
\* each pair of a variant index in 1..N and a mode of 6, 3, 4, 11
C2_OneAttemptPerPair ==
    \A r \in Runs :
        run[r].selected =>
            /\ Len(run[r].results) = Len(run[r].variants) * 4
            /\ \A v \in 1..Len(run[r].variants), p \in {6, 3, 4, 11} :
                  Cardinality({n \in 1..Len(run[r].results) :
                                  /\ run[r].results[n].variant = v
                                  /\ run[r].results[n].psm = p}) = 1

C2_Witness ==
    \E r \in Runs :
        run[r].selected /\ Len(run[r].variants) = 2 /\ Len(run[r].results) = 8

\* C3: the result is not selected while a dispatched request is unsettled
C3_JoinIsBarrier ==
    \A r \in Runs :
        run[r].selected =>
            \A t \in 1..Len(run[r].ocrTasks) : run[r].ocrTasks[t] # "pending"

C3_Witness ==
    \E r \in Runs :
        /\ run[r].selected
        /\ Len(run[r].ocrTasks) = 8
        /\ \A t \in 1..Len(run[r].ocrTasks) : run[r].ocrTasks[t] = "fulfilled"

\* C4: with the OCR engine initialized, the rejection of one request does
\* not by itself fail the run: the step in which a request rejects leaves the
\* run where it was
C4_RejectionDoesNotFailRun ==
    [][\A r \in Runs :
          /\ tessReady
          /\ \E t \in 1..Len(run[r].ocrTasks) :
                /\ run[r].ocrTasks[t] = "pending"
                /\ Len(run'[r].ocrTasks) = Len(run[r].ocrTasks)
                /\ run'[r].ocrTasks[t] = "rejected"
          => run'[r].pc = run[r].pc]_vars

\* C5: once a request of a run has rejected, that run has ended in the error
\* handler: its result was never selected, the page shows Error and the
\* error was reported with an alert
C5_RejectionAbortsRun ==
    \A r \in Runs :
        (\E t \in 1..Len(run[r].ocrTasks) : run[r].ocrTasks[t] = "rejected") =>
            /\ run[r].pc = "error"
            /\ ~run[r].selected
            /\ run[r].alert = "Error during processing"
            /\ statusEl = "Error"

\* a rejection that arrives after requests of both variants have fulfilled
C5_Witness ==
    \E r \in Runs :
        /\ (\E t \in 1..Len(run[r].ocrTasks) : run[r].ocrTasks[t] = "rejected")
        /\ run[r].pc = "error"
        /\ Len(run[r].ocrTasks) = 8
        /\ run[r].ocrTasks[1] = "fulfilled"
        /\ run[r].ocrTasks[8] = "fulfilled"

\* C6: a run in which all four recipes have failed ends in Done, with the
\* empty text and confidence 0 as its result
C6_EmptyRunCompletes ==
    \A r \in Runs :
        Ended(r) /\ run[r].created /\ run[r].variants = <<>> =>
            /\ run[r].pc = "done"
            /\ statusEl = "Done."
            /\ run[r].best.text = <<>> /\ run[r].best.avgConf = 0

\* C7: a run that has ended in the error handler leaves the result text and
\* the confidence in their reset state
C7_NoPartialResult ==
    \A r \in Runs :
        run[r].pc = "error" => resultArea = <<>> /\ confBadge = Dash

\* C8: when a run has ended, every buffer it allocated has been deleted,
\* and none was deleted twice or used after its deletion
C8_BuffersReleased ==
    \A r \in Runs :
        Ended(r) => run[r].live = {} /\ ~run[r].leaked /\ ~run[r].misuse

\* C9: cleanText(cleanText(s)) = cleanText(s)
C9_Idempotent == output # NotRun => again = output

RECURSIVE HasTripleNewline(_)
HasTripleNewline(s) ==
    /\ Len(s) >= 3
    /\ \/ SubSeq(s, 1, 3) = <<"NL", "NL", "NL">>
       \/ HasTripleNewline(Tail(s))

\* C10: cleanText(s) neither begins nor ends with whitespace and holds no
\* three consecutive newlines
C10_TrimmedNoTripleNewline ==
    output # NotRun =>
        /\ output # <<>> => output[1] \notin Whitespace /\ output[Len(output)] \notin Whitespace
        /\ ~HasTripleNewline(output)

\* C11: the Extract and Reprocess buttons are enabled exactly when cvReady
\* and tessReady are both true, and a call of doExtract made while one of
\* the two is false ends with the alert of line 282: it changes nothing on
\* the page, creates no variant and dispatches no request
C11_ReadinessGates ==
    /\ [](/\ btnExtract = ~(cvReady /\ tessReady)
          /\ btnReprocess = ~(cvReady /\ tessReady))
    /\ [][\A r \in Runs :
            run[r].pc = "idle" /\ run'[r].pc # "idle" /\ ~(cvReady /\ tessReady) =>
                /\ run'[r].pc = "notready"
                /\ run'[r].alert = "OpenCV not ready yet"
                /\ run'[r].variants = <<>> /\ run'[r].ocrTasks = <<>>
                /\ UNCHANGED <<pageVars, srcCanvas>>]_vars

\* doExtract was called before OpenCV was initialized, buttons still disabled
C11_Witness ==
    \E r \in Runs :
        run[r].pc = "notready" /\ ~cvReady /\ btnExtract /\ btnReprocess

\* C12: from the moment a run waits for OCR, all N x 4 requests have been
\* issued, whatever number of them has completed
C12_AllIssuedBeforeWaiting ==
    \A r \in Runs :
        run[r].pc = "ocr" \/ run[r].ocrTasks # <<>> =>
            Len(run[r].ocrTasks) = Len(run[r].variants) * 4

\* the run waits with eight requests issued and none completed
C12_Witness ==
    \E r \in Runs :
        /\ run[r].pc = "ocr"
        /\ Len(run[r].ocrTasks) = 8
        /\ \A t \in 1..8 : run[r].ocrTasks[t] = "pending"

C20_RunTerminates ==
    \A r \in Runs : (run[r].pc \in {"decode", "encode", "ocr"}) ~> Ended(r)

\* a run waits for its requests
C20_Witness ==
    \E r \in Runs : run[r].pc = "ocr" /\ run[r].ocrTasks # <<>>

\* C13: while a step waits for the blob of the raster it drew on procCanvas,
\* procCanvas still holds that raster: no other stage has drawn on it
C13_ScratchCanvasOwned ==
    \A r \in RaceRuns :
        run[r].pc = "encode" =>
            procCanvas = Raster(r, RecipeDst(run[r].variants[run[r].i + 1]))

\* C18: once a run started later has written its result, a run started
\* earlier does not write its own
C18_LaterRunWins ==
    [][\A r, q \in RaceRuns :
          r < q /\ run[q].selected /\ ~run[r].selected => ~run'[r].selected]_vars

\* C19: what a run has read from srcCanvas is the decoded image of its own
\* file (or nothing, no image having been drawn yet), never another image
C19_ReadsOwnFile ==
    \A r \in RaceRuns :
        run[r].pc \in {"encode", "ocr", "done"} =>
            run[r].read \in {Decoded(run[r].file), NoImage}

FailedRecipes(throwAt) == {k \in Recipes : throwAt[k] # 0}

SurvivingRecipes(throwAt) == SelectSeq(<<0, 1, 2, 3>>, LAMBDA k : throwAt[k] = 0)

\* C14: whichever recipes throw, lines 185-256 run through and leave the
\* variants of the recipes that did not throw, in recipe order, 4 - |F| of
\* them, each a live buffer computed from the one grayscale buffer
C14_RecipeFailuresIsolated ==
    run[1].pc = "preprocessed" =>
        /\ run[1].variants = SurvivingRecipes(input.throwAt)
        /\ Len(run[1].variants) = 4 - Cardinality(FailedRecipes(input.throwAt))
        /\ \A n \in 1..Len(run[1].variants) : RecipeDst(run[1].variants[n]) \in run[1].live
        /\ "gray" \in run[1].live /\ ~run[1].misuse

\* the second recipe throws in its last call, the others run through
C14_Witness ==
    /\ run[1].pc = "preprocessed"
    /\ input.throwAt = [k \in Recipes |-> IF k = 1 THEN 3 ELSE 0]
    /\ run[1].variants = <<0, 2, 3>>

NoSegmentKept(lines) == \A i \in 1..Len(lines) : Abs(AngleOf(lines[i])) >= MaxSkew

\* C15: when edge or line detection throws, or no segment with |angle| < 45
\* is left, computeSkewAngle gives 0, nothing is rotated, and the recipes run
C15_SkewBestEffort ==
    run[1].pc = "preprocessed" /\ (input.detection # "ok" \/ NoSegmentKept(input.lines)) =>
        /\ output.angle = 0
        /\ output.outcome # "rotate"
        /\ run[1].variants = <<0, 1, 2, 3>>

\* three segments were detected and all are too steep
C15_Witness ==
    /\ run[1].pc = "preprocessed"
    /\ input.detection = "ok"
    /\ input.lines = << <<0, 1>>, <<1, 1>>, <<0, 1>> >>
    /\ output.angle = 0

\* twice the median of a sorted list that is not empty
TwiceMedian(sorted) ==
    IF Len(sorted) % 2 = 1
    THEN 2 * sorted[(Len(sorted) + 1) \div 2]
    ELSE sorted[Len(sorted) \div 2] + sorted[(Len(sorted) \div 2) + 1]

\* C17: the angle returned is the median of the angles with |angle| < 45
\* (for an even number of them, the mean of the two in the middle), and it
\* lies strictly between -45 and 45 degrees
C17_ReturnsMedian ==
    run[1].pc = "preprocessed" /\ input.detection = "ok" =>
        /\ Len(Kept(input.lines)) > 0 =>
               2 * output.angle = TwiceMedian(SortAngles(Kept(input.lines)))
        /\ Abs(output.angle) < MaxSkew

====
